---- MODULE Spec2Model ----
(***************************************************************************)
(* Multi-tenant task tracking API: users with roles inside organizations,  *)
(* tasks scoped to an organization, and the hourly expiration job.         *)
(*                                                                         *)
(* Every HTTP handler is an operator from (actor, request) and the current *)
(* store to a reply and the next store; the action of the handler applies  *)
(* that operator.  Dates are instants of a small integer clock; the        *)
(* inert data fields of a task (title, description, priority, comments,    *)
(* attachments) go through the same assignment loop as the fields kept     *)
(* here and carry no rule of their own.                                    *)
(***************************************************************************)
EXTENDS Integers, FiniteSets, Sequences, TLC

\* ------------------------------------------------------------------ bounds
MaxTasks == 2
MaxTime == 2
MaxDue == 1
MaxInvites == 1
MaxRegisters == 2
MaxJoins == 1
MaxInflight == 2

\* ------------------------------------------------------- program constants
DefaultLimit == 10
MaxLimit == 100
\* The invite lifetime (7 days), in steps of the clock.
InviteTtl == 1

\* A date field that is not stored in the document.
NoDate == 0
\* A reference or string field that is not stored in the document.
NoRef == "none"

OrgIds == {"o1", "o2"}
\* Users of the initial store, and the ids given to documents created later.
FounderIds == {"a1", "m1", "a2", "p0"}
InviteIds == <<"p1", "p2", "p3">>
UserIds ==
    FounderIds \cup {InviteIds[i] : i \in 1..Len(InviteIds)}
        \cup {"r1", "r2", "r3", "r4", "j1", "j2", "j3"}
TaskIds == 1..MaxTasks
DueDates == 1..MaxDue

Roles == {"Admin", "Manager", "Member"}
Statuses == {"Todo", "In Progress", "Completed", "Expired"}

VARIABLES
    users,          \* User collection: id -> document
    orgs,           \* Organization collection: id -> document
    tasks,          \* Task collection: id -> document
    nextTaskId,     \* ids are never reused; also the createdAt order
    now,            \* the clock read by new Date()
    jobScheduled,   \* whether the cron task of the expiration job runs
    inflight,       \* requests of the auth and organization routes between two awaits
    resp            \* the last operation, who asked, and its reply

vars == <<users, orgs, tasks, nextTaskId, now, jobScheduled, inflight, resp>>

Reply(op, actor, code, n) == [op |-> op, actor |-> actor, code |-> code, n |-> n]

Range(s) == {s[i] : i \in DOMAIN s}

Max(S) == CHOOSE x \in S : \A y \in S : y <= x

\* ids in the order of .sort({ createdAt: -1 }): ids grow with creation.
RECURSIVE SortDesc(_)
SortDesc(S) == IF S = {} THEN <<>> ELSE <<Max(S)>> \o SortDesc(S \ {Max(S)})

\* Mutant of Ceil: the quotient is rounded down.
CeilDown(a, b) == a \div b

\* Math.ceil(a / b) for b > 0
Ceil(a, b) == (a + b - 1) \div b

\* --------------------------------------------------------------- middleware
\* auth: the token resolves to an active user.
Authenticated(a) == a \in DOMAIN users /\ users[a].isActive

\* tenantIsolation: the user carries an organization.
HasTenant(a) == users[a].organization # NoRef

\* req.organizationId
OrganizationId(a) == users[a].organization

\* authorize(...roles)
Authorize(a, allowed) == users[a].role \in allowed

\* The reply of router.use(auth) and router.use(tenantIsolation): 0 when the
\* request passes both.
Gate(a) ==
    IF ~Authenticated(a) THEN 401
    ELSE IF ~HasTenant(a) THEN 401
    ELSE 0

\* ------------------------------------------------------------- Task model
\* taskSchema.pre("save"): old is the document as loaded, doc as assigned.
PreSaveTask(old, doc, t) ==
    IF doc.status # old.status
    THEN IF doc.status = "Completed" /\ doc.completedAt = NoDate
         THEN [doc EXCEPT !.completedAt = t]
         ELSE IF doc.status # "Completed"
              THEN [doc EXCEPT !.completedAt = NoDate]
              ELSE doc
    ELSE doc

\* Mutant of TaskFindOne: the organization is left out of the filter.
TaskFindOneAnyOrg(store, id, org) == id \in DOMAIN store

\* Task.findOne({_id, organization})
TaskFindOne(store, id, org) == id \in DOMAIN store /\ store[id].organization = org

\* Mutant of ActiveMember: isActive is left out of the filter.
ActiveMemberAnyState(u, org) == u \in DOMAIN users /\ users[u].organization = org

\* User.findOne({_id, organization, isActive: true})
ActiveMember(u, org) ==
    u \in DOMAIN users /\ users[u].organization = org /\ users[u].isActive

\* Mutant of MemberScope: the creator branch of the $or is left out.
MemberScopeAssigneeOnly(doc, a) == doc.assignedTo = a

\* The $or added to the filter for a Member.
MemberScope(doc, a) == doc.assignedTo = a \/ doc.createdBy = a

\* Mutant of InScope: a Member is given the scope of the other roles.
InScopeOrgOnly(doc, a) == doc.organization = OrganizationId(a)

\* The filter shared by list and stats: organization, and the Member scope.
InScope(doc, a) ==
    /\ doc.organization = OrganizationId(a)
    /\ users[a].role = "Member" => MemberScope(doc, a)

\* ------------------------------------------------------------ GET /tasks
ValidListQuery(q) ==
    /\ "page" \in DOMAIN q => q.page >= 1
    /\ "limit" \in DOMAIN q => q.limit >= 1 /\ q.limit <= MaxLimit
    /\ "status" \in DOMAIN q => q.status \in Statuses

ListFilter(doc, a, q) ==
    /\ InScope(doc, a)
    /\ "status" \in DOMAIN q => doc.status = q.status
    /\ "assignedTo" \in DOMAIN q => doc.assignedTo = q.assignedTo

GetTasks(a, q) ==
    IF Gate(a) # 0 THEN [code |-> Gate(a)]
    ELSE IF ~ValidListQuery(q) THEN [code |-> 400]
    ELSE LET page == IF "page" \in DOMAIN q THEN q.page ELSE 1
             limit == IF "limit" \in DOMAIN q THEN q.limit ELSE DefaultLimit
             skip == (page - 1) * limit
             found == SortDesc({t \in DOMAIN tasks : ListFilter(tasks[t], a, q)})
             total == Len(found)
             last == IF skip + limit < total THEN skip + limit ELSE total
         IN [code |-> 200,
             tasks |-> SubSeq(found, skip + 1, last),
             page |-> page, limit |-> limit, total |-> total,
             pages |-> Ceil(total, limit)]

\* -------------------------------------------------------- GET /tasks/:id
GetTask(a, id) ==
    IF Gate(a) # 0 THEN [code |-> Gate(a)]
    ELSE IF ~TaskFindOne(tasks, id, OrganizationId(a)) THEN [code |-> 404]
    ELSE IF users[a].role = "Member" /\ ~MemberScope(tasks[id], a) THEN [code |-> 403]
    ELSE [code |-> 200, id |-> id, task |-> tasks[id]]

\* ----------------------------------------------------------- POST /tasks
CreateRoles == {"Admin", "Manager"}
Categories == {"Bug", "Feature", "Improvement"}

ValidCreateBody(b) ==
    /\ "category" \in DOMAIN b
    /\ b.category \in Categories

PostTask(a, b) ==
    IF Gate(a) # 0 THEN [code |-> Gate(a), tasks |-> tasks]
    ELSE IF ~Authorize(a, CreateRoles) THEN [code |-> 403, tasks |-> tasks]
    ELSE IF ~ValidCreateBody(b) THEN [code |-> 400, tasks |-> tasks]
    ELSE IF "assignedTo" \in DOMAIN b /\ ~ActiveMember(b.assignedTo, OrganizationId(a))
         THEN [code |-> 400, tasks |-> tasks]
    ELSE [code |-> 201,
          tasks |-> tasks @@ (nextTaskId :>
              [status |-> "Todo",
               category |-> b.category,
               dueDate |-> IF "dueDate" \in DOMAIN b THEN b.dueDate ELSE NoDate,
               completedAt |-> NoDate,
               assignedTo |-> IF "assignedTo" \in DOMAIN b THEN b.assignedTo ELSE NoRef,
               createdBy |-> a,
               organization |-> OrganizationId(a)])]

\* ------------------------------------------------------- PUT /tasks/:id
\* Mutant of UpdateStatusValues: the validator accepts every status of the
\* schema.
UpdateStatusValuesAll == {"Todo", "In Progress", "Completed", "Expired"}

UpdateStatusValues == {"Todo", "In Progress", "Completed"}

ValidUpdateBody(b) ==
    /\ "status" \in DOMAIN b => b.status \in UpdateStatusValues
    /\ "category" \in DOMAIN b => b.category \in Categories

\* Mutant of MemberAllowedFields: a second field is let through.
MemberAllowedFieldsWide == {"status", "dueDate"}

MemberAllowedFields == {"status"}

\* Object.keys(req.body).forEach((key) => task[key] = req.body[key]); keys
\* that are no path of the schema are dropped by the strict schema.
AssignBody(doc, b) ==
    [k \in DOMAIN doc |-> IF k \in DOMAIN b THEN b[k] ELSE doc[k]]

PutTask(a, id, b) ==
    IF Gate(a) # 0 THEN [code |-> Gate(a), tasks |-> tasks]
    ELSE IF ~ValidUpdateBody(b) THEN [code |-> 400, tasks |-> tasks]
    ELSE IF ~TaskFindOne(tasks, id, OrganizationId(a)) THEN [code |-> 404, tasks |-> tasks]
    ELSE IF users[a].role = "Member" /\ tasks[id].assignedTo # a
         THEN [code |-> 403, tasks |-> tasks]
    ELSE IF users[a].role = "Member" /\ ~(DOMAIN b \subseteq MemberAllowedFields)
         THEN [code |-> 403, tasks |-> tasks]
    ELSE IF "assignedTo" \in DOMAIN b /\ ~ActiveMember(b.assignedTo, OrganizationId(a))
         THEN [code |-> 400, tasks |-> tasks]
    ELSE [code |-> 200,
          tasks |-> [tasks EXCEPT ![id] = PreSaveTask(tasks[id], AssignBody(tasks[id], b), now)]]

\* The paths save() writes: those whose value differs from the loaded one.
ModifiedPaths(loaded, doc) == {k \in DOMAIN loaded : doc[k] # loaded[k]}

\* task.save() of a document loaded earlier: the save hook runs on the
\* document in memory, and the modified paths are written over the stored
\* document; a document that is gone makes save() throw.
PutTaskSave(store, id, loaded, b, t) ==
    LET doc == PreSaveTask(loaded, AssignBody(loaded, b), t)
        m == ModifiedPaths(loaded, doc)
    IN  IF id \notin DOMAIN store
        THEN [ok |-> FALSE, tasks |-> store]
        ELSE [ok |-> TRUE,
              tasks |-> [store EXCEPT ![id] =
                  [k \in DOMAIN @ |-> IF k \in m THEN doc[k] ELSE @[k]]]]

\* ---------------------------------------------------- DELETE /tasks/:id
DeleteRoles == {"Admin", "Manager"}

DeleteTask(a, id) ==
    IF Gate(a) # 0 THEN [code |-> Gate(a), tasks |-> tasks]
    ELSE IF ~Authorize(a, DeleteRoles) THEN [code |-> 403, tasks |-> tasks]
    ELSE IF ~TaskFindOne(tasks, id, OrganizationId(a)) THEN [code |-> 404, tasks |-> tasks]
    ELSE [code |-> 200, tasks |-> [t \in DOMAIN tasks \ {id} |-> tasks[t]]]

\* ------------------------------------------------ GET /tasks/stats/overview
\* $lt inside $group compares in BSON order, where a missing field sorts
\* before every date; $ne against null holds for a missing field.
AggLt(d, t) == d = NoDate \/ d < t
AggNeNull(d) == TRUE

Count(S) == Cardinality(S)

GetStats(a) ==
    IF Gate(a) # 0 THEN [code |-> Gate(a)]
    ELSE LET m == {t \in DOMAIN tasks : InScope(tasks[t], a)} IN
         [code |-> 200,
          total |-> Count(m),
          todo |-> Count({t \in m : tasks[t].status = "Todo"}),
          inProgress |-> Count({t \in m : tasks[t].status = "In Progress"}),
          completed |-> Count({t \in m : tasks[t].status = "Completed"}),
          expired |-> Count({t \in m : tasks[t].status = "Expired"}),
          overdue |-> Count({t \in m :
              /\ tasks[t].status # "Completed"
              /\ tasks[t].status # "Expired"
              /\ AggLt(tasks[t].dueDate, now)
              /\ AggNeNull(tasks[t].dueDate)})]

\* ------------------------------------------------------- expiration job
\* Mutant of SweepFilter: the status condition is left out.
SweepFilterAnyStatus(doc, t) == doc.dueDate # NoDate /\ doc.dueDate < t

\* The filter of Task.updateMany: a query $lt matches dates only.
SweepFilter(doc, t) ==
    /\ doc.dueDate # NoDate
    /\ doc.dueDate < t
    /\ doc.status \notin {"Completed", "Expired"}

\* Mutant of SweepSet: a task is moved one step on, not set to Expired.
SweepSetStep(doc) ==
    [doc EXCEPT !.status = IF @ = "Todo" THEN "In Progress" ELSE "Expired"]

\* $set: { status: "Expired" }
SweepSet(doc) == [doc EXCEPT !.status = "Expired"]

\* updateMany writes the store directly: no save hook runs.
UpdateMany(store, t) ==
    [id \in DOMAIN store |->
        IF SweepFilter(store[id], t) THEN SweepSet(store[id]) ELSE store[id]]

\* expiredTasks.modifiedCount
ModifiedCount(store, t) ==
    Cardinality({id \in DOMAIN store : UpdateMany(store, t)[id] # store[id]})

\* ------------------------------------------------- Organization model
\* The pre-save slug base: lower case, runs of other characters become one
\* "-", trimmed.  A slug is the sequence of its "-"-separated parts.
BaseSlug(name) ==
    CASE name = "Acme" -> <<"acme">>
      [] name = "ACME" -> <<"acme">>
      [] name = "Acme 1" -> <<"acme", "1">>
      [] name = "Beta" -> <<"beta">>
      [] name = "!!" -> <<>>
      [] OTHER -> <<"x">>

\* `${baseSlug}-${count}`
Suffixed(base, count) == Append(base, ToString(count))

\* The while loop of organizationSchema.pre("save"): the first of base,
\* base-1, base-2, ... that no other organization holds.
RECURSIVE FreeSlug(_, _, _, _)
FreeSlug(store, id, base, count) ==
    LET slug == IF count = 0 THEN base ELSE Suffixed(base, count) IN
    IF \E o \in DOMAIN store \ {id} : store[o].slug = slug
    THEN FreeSlug(store, id, base, count + 1)
    ELSE slug

\* organizationSchema.pre("save")
PreSaveOrg(store, id, old, doc) ==
    IF doc.name # old.name
    THEN [doc EXCEPT !.slug = FreeSlug(store, id, BaseSlug(doc.name), 0)]
    ELSE doc

\* ------------------------------------------------------------- User model
\* A user document.
User(email, org, role, active, token, expires) ==
    [email |-> email, organization |-> org, role |-> role, isActive |-> active,
     inviteToken |-> token, inviteExpires |-> expires,
     password |-> IF token = NoRef THEN "secret" ELSE "temporary",
     lastLogin |-> NoDate]

\* validator isEmail()
IsEmail(e) == e # "bad"

\* Lower case of an address: the schema's lowercase: true.
Lowercase(e) == IF e = "N1@X" THEN "n1@x" ELSE e

\* validator normalizeEmail(): lower case for the addresses used here.
NormalizeEmail(e) == Lowercase(e)

\* User.findOne({ email })
EmailTaken(store, email) == \E u \in DOMAIN store : store[u].email = email

\* The next id of a pool that the collection does not hold.
FirstFree(pool, used) ==
    pool[CHOOSE i \in 1..Len(pool) :
            pool[i] \notin used /\ \A j \in 1..(i - 1) : pool[j] \in used]

\* Mutant of InsertUser: the collection has no unique index on email.
InsertUserNoIndex(store, id, doc) ==
    [ok |-> TRUE, users |-> store @@ (id :> [doc EXCEPT !.email = Lowercase(@)])]

\* save() of a new user: the unique index on email refuses a second
\* document with the address (E11000).
InsertUser(store, id, doc) ==
    IF \E u \in DOMAIN store : store[u].email = Lowercase(doc.email)
    THEN [ok |-> FALSE, users |-> store]
    ELSE [ok |-> TRUE, users |-> store @@ (id :> [doc EXCEPT !.email = Lowercase(@)])]

\* Mutant of SaveOrg: the collection has no unique index on slug.
SaveOrgNoIndex(store, id, doc) ==
    [ok |-> TRUE,
     orgs |-> [o \in DOMAIN store \cup {id} |-> IF o = id THEN doc ELSE store[o]]]

\* save() of an organization, new or loaded: the unique index on slug
\* refuses a slug another document holds (E11000).
SaveOrg(store, id, doc) ==
    IF \E o \in DOMAIN store \ {id} : store[o].slug = doc.slug
    THEN [ok |-> FALSE, orgs |-> store]
    ELSE [ok |-> TRUE,
          orgs |-> [o \in DOMAIN store \cup {id} |-> IF o = id THEN doc ELSE store[o]]]

\* ----------------------------------------- PUT /organizations/settings
SettingsRoles == {"Admin"}
Themes == {"light", "dark", "auto"}
MinNameLen == 2

\* The length of a name after trim().
NameLen(name) == IF name = "X" THEN 1 ELSE IF name = "!!" THEN 2 ELSE 4

ValidSettingsBody(b) ==
    /\ "name" \in DOMAIN b => NameLen(b.name) >= MinNameLen
    /\ "theme" \in DOMAIN b => b.theme \in Themes

\* { ...organization.settings, ...req.body.settings }; the body's settings
\* keys are given flat.
MergeSettings(doc, b) ==
    [doc EXCEPT !.theme = IF "theme" \in DOMAIN b THEN b.theme ELSE @]

PutSettings(a, b) ==
    IF Gate(a) # 0 THEN [code |-> Gate(a), orgs |-> orgs]
    ELSE IF ~Authorize(a, SettingsRoles) THEN [code |-> 403, orgs |-> orgs]
    ELSE IF ~ValidSettingsBody(b) THEN [code |-> 400, orgs |-> orgs]
    ELSE IF OrganizationId(a) \notin DOMAIN orgs THEN [code |-> 404, orgs |-> orgs]
    ELSE LET id == OrganizationId(a)
             old == orgs[id]
             named == IF "name" \in DOMAIN b THEN [old EXCEPT !.name = b.name] ELSE old
             doc == MergeSettings(named, b)
         IN [code |-> 200, orgs |-> [orgs EXCEPT ![id] = PreSaveOrg(orgs, id, old, doc)]]

\* ------------------------------------------- POST /organizations/invite
InviteRoles == {"Admin", "Manager"}
InvitableRoles == {"Manager", "Member"}

ValidInviteBody(b) ==
    /\ IsEmail(b.email)
    /\ "role" \in DOMAIN b => b.role \in InvitableRoles

\* The documents created after the initial store, in order of creation.
Invited == {i \in 1..Len(InviteIds) : InviteIds[i] \in DOMAIN users}

\* The gates, validation and the look-up of the address; code 0 lets the
\* request go on.
PostInviteFind(a, b) ==
    IF Gate(a) # 0 THEN Gate(a)
    ELSE IF ~Authorize(a, InviteRoles) THEN 403
    ELSE IF ~ValidInviteBody(b) THEN 400
    ELSE IF EmailTaken(users, NormalizeEmail(b.email)) THEN 400
    ELSE 0

\* The placeholder: inactive, with the token and its expiry.  The token is
\* random; the id the document gets stands for it.
PostInviteDoc(a, b, id, t) ==
    [User(NormalizeEmail(b.email), OrganizationId(a),
          IF "role" \in DOMAIN b THEN b.role ELSE "Member",
          FALSE, id, t + InviteTtl)
        EXCEPT !.password = "temporary"]

\* inviteUser.save()
PostInviteSave(us, doc) == InsertUser(us, doc.inviteToken, doc)

PostInvite(a, b) ==
    LET c == PostInviteFind(a, b)
        id == InviteIds[Cardinality(Invited) + 1]
        s == PostInviteSave(users, PostInviteDoc(a, b, id, now))
    IN  IF c # 0 THEN [code |-> c, users |-> users]
        ELSE IF ~s.ok THEN [code |-> 500, users |-> users]
        ELSE [code |-> 200, users |-> s.users]

\* ------------------------------- PUT /organizations/members/:userId/role
\* Mutant of ChangeRoleRoles: Managers are let through.
ChangeRoleRolesWide == {"Admin", "Manager"}

ChangeRoleRoles == {"Admin"}

PutMemberRole(a, target, role) ==
    IF Gate(a) # 0 THEN [code |-> Gate(a), msg |-> "Unauthorized", users |-> users]
    ELSE IF ~Authorize(a, ChangeRoleRoles)
         THEN [code |-> 403, msg |-> "Forbidden", users |-> users]
    ELSE IF role \notin Roles THEN [code |-> 400, msg |-> "errors", users |-> users]
    ELSE IF target = a
         THEN [code |-> 400, msg |-> "Cannot change your own role", users |-> users]
    ELSE IF ~ActiveMember(target, OrganizationId(a))
         THEN [code |-> 404, msg |-> "User not found", users |-> users]
    ELSE [code |-> 200, msg |-> "User role updated successfully",
          users |-> [users EXCEPT ![target].role = role]]

\* -------------------------------------------- GET /organizations/members
\* Mutant of MembersFind: isActive is left out of the filter.
MembersFindAll(us, org) == {u \in DOMAIN us : us[u].organization = org}

\* User.find({ organization, isActive: true })
MembersFind(us, org) == {u \in DOMAIN us : us[u].organization = org /\ us[u].isActive}

GetMembers(a) ==
    IF Gate(a) # 0 THEN [code |-> Gate(a)]
    ELSE [code |-> 200, members |-> MembersFind(users, OrganizationId(a))]

\* ----------------------------------- DELETE /organizations/members/:userId
RemoveRoles == {"Admin"}

DeleteMember(a, target) ==
    IF Gate(a) # 0 THEN [code |-> Gate(a), msg |-> "Unauthorized", users |-> users]
    ELSE IF ~Authorize(a, RemoveRoles)
         THEN [code |-> 403, msg |-> "Forbidden", users |-> users]
    ELSE IF target = a
         THEN [code |-> 400, msg |-> "Cannot remove yourself", users |-> users]
    ELSE IF ~(target \in DOMAIN users /\ users[target].organization = OrganizationId(a))
         THEN [code |-> 404, msg |-> "User not found", users |-> users]
    ELSE [code |-> 200, msg |-> "User removed successfully",
          users |-> [users EXCEPT ![target].isActive = FALSE]]

\* ------------------------------------------------------ POST /auth/register
RegisterIds == <<"r1", "r2", "r3", "r4">>
NewOrgIds == <<"o3", "o4", "o5", "o6">>

\* generateSlug(text): lower case, blanks to "-", other non-word characters
\* removed.
GenerateSlug(name) ==
    CASE name = "Acme" -> <<"acme">>
      [] name = "ACME" -> <<"acme">>
      [] name = "Acme 1" -> <<"acme", "1">>
      [] name = "Beta" -> <<"beta">>
      [] name = "!!" -> <<>>
      [] OTHER -> <<"x">>

\* Mutant of RegisterRole: the founder is created with the schema's default.
RegisterRoleDefault == "Member"

RegisterRole == "Admin"

ValidRegisterBody(b) ==
    /\ IsEmail(b.email)
    /\ NameLen(b.organizationName) >= MinNameLen

\* Validation and the look-up of the address; code 0 lets the request go on.
RegisterFind(us, b) ==
    IF ~ValidRegisterBody(b) THEN [code |-> 400, msg |-> "errors"]
    ELSE IF EmailTaken(us, NormalizeEmail(b.email))
         THEN [code |-> 400, msg |-> "User already exists"]
    ELSE [code |-> 0, msg |-> ""]

\* 1. new User({ name, email, password, role: "Admin" }).save()
RegisterSaveUser(us, b) ==
    InsertUser(us, FirstFree(RegisterIds, DOMAIN us),
        [User(NormalizeEmail(b.email), NoRef, RegisterRole, TRUE, NoRef, NoDate)
            EXCEPT !.password = b.password])

\* 2. new Organization({ name, slug: generateSlug(name), createdBy }):
\* validation wants a slug that is not empty; then the save hook looks for
\* a slug no other organization holds.
RegisterFindSlug(os, name, uid) ==
    [valid |-> GenerateSlug(name) # <<>>,
     doc |-> [name |-> name,
              slug |-> FreeSlug(os, NoRef, BaseSlug(name), 0),
              theme |-> "light",
              createdBy |-> uid]]

RegisterSaveOrg(os, doc) == SaveOrg(os, FirstFree(NewOrgIds, DOMAIN os), doc)

\* 3. user.organization = organization._id; user.save()
RegisterLink(us, uid, oid) == [us EXCEPT ![uid].organization = oid]

\* The whole handler, when no other request runs between its awaits.
Register(b) ==
    LET f == RegisterFind(users, b)
        uid == FirstFree(RegisterIds, DOMAIN users)
        u == RegisterSaveUser(users, b)
        g == RegisterFindSlug(orgs, b.organizationName, uid)
        oid == FirstFree(NewOrgIds, DOMAIN orgs)
        o == RegisterSaveOrg(orgs, g.doc)
    IN  IF f.code # 0
        THEN [code |-> f.code, msg |-> f.msg, token |-> FALSE, users |-> users, orgs |-> orgs]
        ELSE IF ~u.ok
        THEN [code |-> 500, msg |-> "Server error during registration", token |-> FALSE,
              users |-> users, orgs |-> orgs]
        ELSE IF ~g.valid \/ ~o.ok
        THEN [code |-> 500, msg |-> "Server error during registration", token |-> FALSE,
              users |-> u.users, orgs |-> orgs]
        ELSE [code |-> 201, msg |-> "", token |-> TRUE,
              users |-> RegisterLink(u.users, uid, oid), orgs |-> o.orgs]

\* --------------------------------------------------------- POST /auth/login
ValidLoginBody(b) == IsEmail(b.email) /\ "password" \in DOMAIN b

\* User.findOne({ email, isActive: true })
LoginFind(us, email) == {u \in DOMAIN us : us[u].email = email /\ us[u].isActive}

\* user.comparePassword(password)
ComparePassword(doc, password) == doc.password = password

\* lastLogin is saved before the reply is built; the reply reads
\* user.organization._id, which throws for a user that has no organization.
Login(b) ==
    IF ~ValidLoginBody(b)
    THEN [code |-> 400, msg |-> "errors", token |-> FALSE, users |-> users]
    ELSE LET found == LoginFind(users, NormalizeEmail(b.email)) IN
    IF found = {}
    THEN [code |-> 400, msg |-> "Invalid credentials", token |-> FALSE, users |-> users]
    ELSE LET u == CHOOSE x \in found : TRUE
             saved == [users EXCEPT ![u].lastLogin = now] IN
    IF ~ComparePassword(users[u], b.password)
    THEN [code |-> 400, msg |-> "Invalid credentials", token |-> FALSE, users |-> users]
    ELSE IF users[u].organization = NoRef
    THEN [code |-> 500, msg |-> "Server error during login", token |-> FALSE, users |-> saved]
    ELSE [code |-> 200, msg |-> "", token |-> TRUE, users |-> saved]

\* ---------------------------------------------------------- POST /auth/join
JoinIds == <<"j1", "j2", "j3">>

JoinRole == "Member"

ValidJoinBody(b) == IsEmail(b.email) /\ "inviteToken" \in DOMAIN b

\* User.findOne({ inviteToken, inviteExpires: { $gt: Date.now() } })
InviteFind(us, token, t) ==
    {u \in DOMAIN us : us[u].inviteToken = token /\ us[u].inviteExpires > t}

\* Validation and the two look-ups; code 0 lets the request go on.
JoinFind(us, b, t) ==
    IF ~ValidJoinBody(b) THEN [code |-> 400, msg |-> "errors", org |-> NoRef]
    ELSE IF InviteFind(us, b.inviteToken, t) = {}
         THEN [code |-> 400, msg |-> "Invalid or expired invite token", org |-> NoRef]
    ELSE IF EmailTaken(us, NormalizeEmail(b.email))
         THEN [code |-> 400, msg |-> "User already exists", org |-> NoRef]
    ELSE [code |-> 0, msg |-> "",
          org |-> us[CHOOSE u \in InviteFind(us, b.inviteToken, t) : TRUE].organization]

\* new User({ name, email, password, organization, role: "Member" }).save()
JoinSave(us, b, org) ==
    InsertUser(us, FirstFree(JoinIds, DOMAIN us),
        [User(NormalizeEmail(b.email), org, JoinRole, TRUE, NoRef, NoDate)
            EXCEPT !.password = b.password])

\* The whole handler, when no other request runs between its awaits.
Join(b) ==
    LET f == JoinFind(users, b, now)
        s == JoinSave(users, b, f.org)
    IN  IF f.code # 0
        THEN [code |-> f.code, msg |-> f.msg, token |-> FALSE, users |-> users]
        ELSE IF ~s.ok
        THEN [code |-> 500, msg |-> "Server error during registration", token |-> FALSE,
              users |-> users]
        ELSE [code |-> 201, msg |-> "", token |-> TRUE, users |-> s.users]

\* ------------------------------------------- requests between two awaits
Slots == 1..MaxInflight

Idle ==
    [op |-> "idle", pc |-> "idle", actor |-> NoRef, body |-> <<>>,
     uid |-> NoRef, oid |-> NoRef, doc |-> <<>>]

\* The slot a new request takes.
FreeSlot(i) ==
    /\ inflight[i].pc = "idle"
    /\ \A j \in 1..(i - 1) : inflight[j].pc # "idle"

Started(op) == Cardinality({i \in Slots : inflight[i].op = op})

Registered == {i \in 1..Len(RegisterIds) : RegisterIds[i] \in DOMAIN users}
Joined == {i \in 1..Len(JoinIds) : JoinIds[i] \in DOMAIN users}

\* ------------------------------------------------------------ request sets
\* The requests the checked formulas range over.
CreateBodies ==
    {   [category |-> "Bug"],
        [category |-> "Nope"],
        [category |-> "Bug", dueDate |-> 1],
        [category |-> "Bug", assignedTo |-> "m1"],
        [category |-> "Bug", assignedTo |-> "m1", dueDate |-> 1],
        [category |-> "Bug", assignedTo |-> "a2"],
        [category |-> "Bug", status |-> "Expired", organization |-> "o2",
         completedAt |-> 1] }

UpdateBodies ==
    {   [status |-> s] : s \in Statuses }
    \cup { [dueDate |-> d] : d \in DueDates }
    \cup { [assignedTo |-> u] : u \in {"a1", "m1", "a2", "p0"} }
    \cup { [organization |-> o] : o \in OrgIds }
    \cup { [completedAt |-> 1],
           [category |-> "Feature"],
           [status |-> "Completed", dueDate |-> 1],
           [status |-> "In Progress", assignedTo |-> "m1"],
           <<>> }

ListQueries ==
    {   <<>>,
        [limit |-> 1],
        [page |-> 2, limit |-> 1],
        [status |-> "Todo"],
        [assignedTo |-> "m1"],
        [page |-> 0] }

SettingsBodies ==
    {   [name |-> "ACME"], [name |-> "Beta"], [name |-> "X"],
        [theme |-> "dark"], [theme |-> "pink"], <<>> }

InviteBodies ==
    {   [email |-> "m1@x"], [email |-> "n1@x"],
        [email |-> "n1@x", role |-> "Manager"],
        [email |-> "n2@x", role |-> "Admin"] }

RoleInputs == Roles \cup {"Owner"}

RegisterBodies ==
    {   [email |-> e, password |-> "secret", organizationName |-> n] :
            e \in {"n1@x", "N1@X", "a1@x", "p0@x", "bad"},
            n \in {"Acme", "ACME", "Acme 1", "Beta", "Gamma", "!!", "X"} }

LoginBodies ==
    {   [email |-> e, password |-> p] :
            e \in {"a1@x", "m1@x", "p0@x", "n1@x", "N1@X", "n2@x", "zz@x", "bad"},
            p \in {"secret", "temporary", "wrong"} }
    \cup { [email |-> "a1@x"] }

JoinBodies ==
    {   [email |-> e, password |-> "secret", inviteToken |-> t] :
            e \in {"p0@x", "n1@x", "N1@X", "a1@x", "j9@x", "bad"},
            t \in {"p0", "p1", "zz"} }

\* ------------------------------------------------------------------ actions
PostTaskReq(A, B) ==
    \E a \in A, b \in B :
        LET r == PostTask(a, b) IN
        /\ nextTaskId <= MaxTasks
        /\ tasks' = r.tasks
        /\ nextTaskId' = IF r.code = 201 THEN nextTaskId + 1 ELSE nextTaskId
        /\ resp' = Reply("create", a, r.code, 0)
        /\ UNCHANGED <<users, orgs, now, jobScheduled, inflight>>

PutTaskReq(A, B) ==
    \E a \in A, id \in TaskIds, b \in B :
        LET r == PutTask(a, id, b) IN
        /\ tasks' = r.tasks
        /\ resp' = Reply("update", a, r.code, 0)
        /\ UNCHANGED <<users, orgs, nextTaskId, now, jobScheduled, inflight>>

DeleteTaskReq(A) ==
    \E a \in A, id \in TaskIds :
        LET r == DeleteTask(a, id) IN
        /\ tasks' = r.tasks
        /\ resp' = Reply("delete", a, r.code, 0)
        /\ UNCHANGED <<users, orgs, nextTaskId, now, jobScheduled, inflight>>

GetTasksReq(A, Q) ==
    \E a \in A, q \in Q :
        /\ resp' = Reply("list", a, GetTasks(a, q).code, 0)
        /\ UNCHANGED <<users, orgs, tasks, nextTaskId, now, jobScheduled, inflight>>

GetTaskReq(A) ==
    \E a \in A, id \in TaskIds :
        /\ resp' = Reply("get", a, GetTask(a, id).code, 0)
        /\ UNCHANGED <<users, orgs, tasks, nextTaskId, now, jobScheduled, inflight>>

GetStatsReq(A) ==
    \E a \in A :
        /\ resp' = Reply("stats", a, GetStats(a).code, 0)
        /\ UNCHANGED <<users, orgs, tasks, nextTaskId, now, jobScheduled, inflight>>

PutSettingsReq(A, B) ==
    \E a \in A, b \in B :
        LET r == PutSettings(a, b) IN
        /\ orgs' = r.orgs
        /\ resp' = Reply("settings", a, r.code, 0)
        /\ UNCHANGED <<users, tasks, nextTaskId, now, jobScheduled, inflight>>

PostInviteReq(A, B) ==
    \E a \in A, b \in B :
        LET r == PostInvite(a, b) IN
        /\ Cardinality(Invited) < MaxInvites
        /\ users' = r.users
        /\ resp' = Reply("invite", a, r.code, 0)
        /\ UNCHANGED <<orgs, tasks, nextTaskId, now, jobScheduled, inflight>>

PutMemberRoleReq(A, T, R) ==
    \E a \in A, target \in T, role \in R :
        LET r == PutMemberRole(a, target, role) IN
        /\ users' = r.users
        /\ resp' = Reply("role", a, r.code, 0)
        /\ UNCHANGED <<orgs, tasks, nextTaskId, now, jobScheduled, inflight>>

DeleteMemberReq(A, T) ==
    \E a \in A, target \in T :
        LET r == DeleteMember(a, target) IN
        /\ users' = r.users
        /\ resp' = Reply("remove", a, r.code, 0)
        /\ UNCHANGED <<orgs, tasks, nextTaskId, now, jobScheduled, inflight>>

\* Time passes.
AdvanceClock ==
    /\ now < MaxTime
    /\ now' = now + 1
    /\ resp' = Reply("clock", NoRef, 0, 0)
    /\ UNCHANGED <<users, orgs, tasks, nextTaskId, jobScheduled, inflight>>

\* taskExpirationJob.start(): the task is created with scheduled: false.
StartJob ==
    /\ ~jobScheduled
    /\ jobScheduled' = TRUE
    /\ resp' = Reply("start", NoRef, 0, 0)
    /\ UNCHANGED <<users, orgs, tasks, nextTaskId, now, inflight>>

\* One run of the cron callback, at the hour t it fires.  The reply tells a
\* run that directly follows another run ("resweep") and carries
\* modifiedCount.
SweepOps == {"sweep", "resweep"}

SweeperTick ==
    /\ jobScheduled
    /\ \E t \in now..MaxTime :
        /\ now' = t
        /\ tasks' = UpdateMany(tasks, t)
        /\ resp' = Reply(IF resp.op \in SweepOps THEN "resweep" ELSE "sweep",
                         NoRef, 0, ModifiedCount(tasks, t))
    /\ UNCHANGED <<users, orgs, nextTaskId, jobScheduled, inflight>>

\* ------------------------------------------------- auth and rename requests
\* A request of these routes runs from await to await; other requests run
\* in between.  A request that is answered leaves its slot.
Answer(i, op, actor, code) ==
    /\ inflight' = [inflight EXCEPT ![i] = Idle]
    /\ resp' = Reply(op, actor, code, 0)

RegisterStart(B) ==
    \E i \in Slots, b \in B :
        LET f == RegisterFind(users, b) IN
        /\ FreeSlot(i)
        /\ Cardinality(Registered) + Started("register") < MaxRegisters
        /\ IF f.code # 0
           THEN Answer(i, "register", NoRef, f.code)
           ELSE /\ inflight' = [inflight EXCEPT ![i] =
                        [Idle EXCEPT !.op = "register", !.pc = "saveUser", !.body = b]]
                /\ UNCHANGED resp
        /\ UNCHANGED <<users, orgs, tasks, nextTaskId, now, jobScheduled>>

RegisterSaveUserStep ==
    \E i \in Slots :
        LET r == inflight[i]
            u == RegisterSaveUser(users, r.body) IN
        /\ r.pc = "saveUser"
        /\ users' = u.users
        /\ IF u.ok
           THEN /\ inflight' = [inflight EXCEPT ![i] =
                        [r EXCEPT !.pc = "findSlug",
                                  !.uid = FirstFree(RegisterIds, DOMAIN users)]]
                /\ UNCHANGED resp
           ELSE Answer(i, "register", NoRef, 500)
        /\ UNCHANGED <<orgs, tasks, nextTaskId, now, jobScheduled>>

RegisterFindSlugStep ==
    \E i \in Slots :
        LET r == inflight[i]
            g == RegisterFindSlug(orgs, r.body.organizationName, r.uid) IN
        /\ r.pc = "findSlug"
        /\ IF g.valid
           THEN /\ inflight' = [inflight EXCEPT ![i] =
                        [r EXCEPT !.pc = "saveOrg", !.doc = g.doc]]
                /\ UNCHANGED resp
           ELSE Answer(i, "register", r.uid, 500)
        /\ UNCHANGED <<users, orgs, tasks, nextTaskId, now, jobScheduled>>

RegisterSaveOrgStep ==
    \E i \in Slots :
        LET r == inflight[i]
            o == RegisterSaveOrg(orgs, r.doc) IN
        /\ r.pc = "saveOrg"
        /\ orgs' = o.orgs
        /\ IF o.ok
           THEN /\ inflight' = [inflight EXCEPT ![i] =
                        [r EXCEPT !.pc = "link",
                                  !.oid = FirstFree(NewOrgIds, DOMAIN orgs),
                                  !.doc = <<>>]]
                /\ UNCHANGED resp
           ELSE Answer(i, "register", r.uid, 500)
        /\ UNCHANGED <<users, tasks, nextTaskId, now, jobScheduled>>

RegisterLinkStep ==
    \E i \in Slots :
        LET r == inflight[i] IN
        /\ r.pc = "link"
        /\ users' = RegisterLink(users, r.uid, r.oid)
        /\ Answer(i, "register", r.uid, 201)
        /\ UNCHANGED <<orgs, tasks, nextTaskId, now, jobScheduled>>

LoginReq(B) ==
    \E b \in B :
        LET r == Login(b) IN
        /\ users' = r.users
        /\ resp' = Reply("login", NoRef, r.code, 0)
        /\ UNCHANGED <<orgs, tasks, nextTaskId, now, jobScheduled, inflight>>

JoinStart(B) ==
    \E i \in Slots, b \in B :
        LET f == JoinFind(users, b, now) IN
        /\ FreeSlot(i)
        /\ Cardinality(Joined) + Started("join") < MaxJoins
        /\ IF f.code # 0
           THEN Answer(i, "join", b.inviteToken, f.code)
           ELSE /\ inflight' = [inflight EXCEPT ![i] =
                        [Idle EXCEPT !.op = "join", !.pc = "saveJoin", !.body = b,
                                     !.oid = f.org]]
                /\ UNCHANGED resp
        /\ UNCHANGED <<users, orgs, tasks, nextTaskId, now, jobScheduled>>

JoinSaveStep ==
    \E i \in Slots :
        LET r == inflight[i]
            s == JoinSave(users, r.body, r.oid) IN
        /\ r.pc = "saveJoin"
        /\ users' = s.users
        /\ Answer(i, "join", r.body.inviteToken, IF s.ok THEN 201 ELSE 500)
        /\ UNCHANGED <<orgs, tasks, nextTaskId, now, jobScheduled>>

InviteStart(A, B) ==
    \E i \in Slots, a \in A, b \in B :
        LET c == PostInviteFind(a, b) IN
        /\ FreeSlot(i)
        /\ Cardinality(Invited) + Started("invite") < MaxInvites
        /\ IF c # 0
           THEN Answer(i, "invite", a, c)
           ELSE /\ inflight' = [inflight EXCEPT ![i] =
                        [Idle EXCEPT !.op = "invite", !.pc = "saveInvite", !.actor = a,
                                     !.body = b,
                                     !.doc = PostInviteDoc(a, b, NoRef, now)]]
                /\ UNCHANGED resp
        /\ UNCHANGED <<users, orgs, tasks, nextTaskId, now, jobScheduled>>

InviteSaveStep ==
    \E i \in Slots :
        LET r == inflight[i]
            id == InviteIds[Cardinality(Invited) + 1]
            s == PostInviteSave(users, [r.doc EXCEPT !.inviteToken = id]) IN
        /\ r.pc = "saveInvite"
        /\ users' = s.users
        /\ Answer(i, "invite", r.actor, IF s.ok THEN 200 ELSE 500)
        /\ UNCHANGED <<orgs, tasks, nextTaskId, now, jobScheduled>>

\* PUT /organizations/settings with a name: findById, the assignments and
\* the save hook's look-up, then the write.
RenameStart(A, B) ==
    \E i \in Slots, a \in A, b \in B :
        LET r == PutSettings(a, b) IN
        /\ FreeSlot(i)
        /\ IF r.code # 200
           THEN Answer(i, "settings", a, r.code)
           ELSE /\ inflight' = [inflight EXCEPT ![i] =
                        [Idle EXCEPT !.op = "settings", !.pc = "saveSettings",
                                     !.actor = a, !.body = b,
                                     !.oid = OrganizationId(a),
                                     !.doc = r.orgs[OrganizationId(a)]]]
                /\ UNCHANGED resp
        /\ UNCHANGED <<users, orgs, tasks, nextTaskId, now, jobScheduled>>

RenameSaveStep ==
    \E i \in Slots :
        LET r == inflight[i]
            o == SaveOrg(orgs, r.oid, r.doc) IN
        /\ r.pc = "saveSettings"
        /\ orgs' = o.orgs
        /\ Answer(i, "settings", r.actor, IF o.ok THEN 200 ELSE 500)
        /\ UNCHANGED <<users, tasks, nextTaskId, now, jobScheduled>>

\* PUT /tasks/:id from await to await: findOne and the checks, then save().
PutTaskLoad(A, B) ==
    \E i \in Slots, a \in A, id \in TaskIds, b \in B :
        LET r == PutTask(a, id, b) IN
        /\ FreeSlot(i)
        /\ IF r.code # 200
           THEN Answer(i, "update", a, r.code)
           ELSE /\ inflight' = [inflight EXCEPT ![i] =
                        [Idle EXCEPT !.op = "update", !.pc = "saveTask", !.actor = a,
                                     !.body = b,
                                     !.doc = [id |-> id, loaded |-> tasks[id]]]]
                /\ UNCHANGED resp
        /\ UNCHANGED <<users, orgs, tasks, nextTaskId, now, jobScheduled>>

PutTaskSaveStep ==
    \E i \in Slots :
        LET r == inflight[i]
            s == PutTaskSave(tasks, r.doc.id, r.doc.loaded, r.body, now) IN
        /\ r.pc = "saveTask"
        /\ tasks' = s.tasks
        /\ Answer(i, "update", r.actor, IF s.ok THEN 200 ELSE 500)
        /\ UNCHANGED <<users, orgs, nextTaskId, now, jobScheduled>>

\* changeRole and removeMember from await to await: the gates, the self
\* check and User.findOne, then user.save().
PutMemberRoleStart(A, T, R) ==
    \E i \in Slots, a \in A, target \in T, role \in R :
        LET r == PutMemberRole(a, target, role) IN
        /\ FreeSlot(i)
        /\ IF r.code # 200
           THEN Answer(i, "role", a, r.code)
           ELSE /\ inflight' = [inflight EXCEPT ![i] =
                        [Idle EXCEPT !.op = "role", !.pc = "saveRole", !.actor = a,
                                     !.uid = target, !.body = [role |-> role]]]
                /\ UNCHANGED resp
        /\ UNCHANGED <<users, orgs, tasks, nextTaskId, now, jobScheduled>>

PutMemberRoleSaveStep ==
    \E i \in Slots :
        LET r == inflight[i] IN
        /\ r.pc = "saveRole"
        /\ users' = [users EXCEPT ![r.uid].role = r.body.role]
        /\ Answer(i, "role", r.actor, 200)
        /\ UNCHANGED <<orgs, tasks, nextTaskId, now, jobScheduled>>

DeleteMemberStart(A, T) ==
    \E i \in Slots, a \in A, target \in T :
        LET r == DeleteMember(a, target) IN
        /\ FreeSlot(i)
        /\ IF r.code # 200
           THEN Answer(i, "remove", a, r.code)
           ELSE /\ inflight' = [inflight EXCEPT ![i] =
                        [Idle EXCEPT !.op = "remove", !.pc = "saveRemove", !.actor = a,
                                     !.uid = target]]
                /\ UNCHANGED resp
        /\ UNCHANGED <<users, orgs, tasks, nextTaskId, now, jobScheduled>>

DeleteMemberSaveStep ==
    \E i \in Slots :
        LET r == inflight[i] IN
        /\ r.pc = "saveRemove"
        /\ users' = [users EXCEPT ![r.uid].isActive = FALSE]
        /\ Answer(i, "remove", r.actor, 200)
        /\ UNCHANGED <<orgs, tasks, nextTaskId, now, jobScheduled>>

\* ------------------------------------------------------------ initial store
\* Two registered organizations with their founding Admins; o1 has invited
\* p0 and a Member m1 has joined on that invite.
Init ==
    /\ users =
        [u \in FounderIds |->
            CASE u = "a1" -> User("a1@x", "o1", "Admin", TRUE, NoRef, NoDate)
              [] u = "m1" -> User("m1@x", "o1", "Member", TRUE, NoRef, NoDate)
              [] u = "a2" -> User("a2@x", "o2", "Admin", TRUE, NoRef, NoDate)
              [] u = "p0" -> User("p0@x", "o1", "Member", FALSE, "p0", 1 + InviteTtl)]
    /\ orgs =
        [o \in OrgIds |->
            IF o = "o1"
            THEN [name |-> "Acme", slug |-> <<"acme">>, theme |-> "light", createdBy |-> "a1"]
            ELSE [name |-> "Beta", slug |-> <<"beta">>, theme |-> "light", createdBy |-> "a2"]]
    /\ tasks = <<>>
    /\ nextTaskId = 1
    /\ now = 1
    /\ jobScheduled = FALSE
    /\ inflight = [i \in Slots |-> Idle]
    /\ resp = Reply("boot", NoRef, 0, 0)

\* --------------------------------------------------- tenancy and roles
TenantActors == {"a1", "m1", "a2"}

TenantCreateBodies ==
    { [category |-> "Bug"], [category |-> "Bug", assignedTo |-> "m1"] }

TenantUpdateBodies ==
    {   [status |-> "In Progress"],
        [status |-> "Completed"],
        [assignedTo |-> "m1"],
        [organization |-> "o2"],
        [status |-> "Completed", assignedTo |-> "m1"] }

Next ==
    \/ PostTaskReq(TenantActors, TenantCreateBodies)
    \/ PutTaskReq(TenantActors, TenantUpdateBodies)
    \/ DeleteTaskReq(TenantActors)
    \/ GetTasksReq(TenantActors, { <<>>, [page |-> 0] })
    \/ GetTaskReq(TenantActors)
    \/ GetStatsReq(TenantActors)
    \/ PutMemberRoleReq({"a1"}, {"m1"}, {"Manager", "Member"})

Spec == Init /\ [][Next]_vars

\* ------------------------------------------------------ task life cycle
SweeperActors == {"a1", "m1"}

SweeperCreateBodies ==
    { [category |-> "Bug"] }
    \cup { [category |-> "Bug", assignedTo |-> "m1", dueDate |-> d] : d \in DueDates }

SweeperUpdateBodies ==
    { [status |-> s] : s \in Statuses } \cup { [completedAt |-> 1] }

SweeperNext ==
    \/ PostTaskReq(SweeperActors, SweeperCreateBodies)
    \/ PutTaskReq(SweeperActors, SweeperUpdateBodies)
    \/ DeleteTaskReq(SweeperActors)
    \/ AdvanceClock
    \/ StartJob
    \/ SweeperTick

SweeperSpec == Init /\ [][SweeperNext]_vars

\* ------------------------------------------------------ the server process
\* The server mounts the routes; nothing it loads starts the expiration job.
ServerNext ==
    \/ PostTaskReq(SweeperActors, SweeperCreateBodies)
    \/ PutTaskReq(SweeperActors, SweeperUpdateBodies)
    \/ DeleteTaskReq(SweeperActors)
    \/ AdvanceClock

ServerSpec ==
    /\ Init
    /\ [][ServerNext]_vars
    /\ WF_vars(AdvanceClock)
    /\ WF_vars(SweeperTick)

\* ------------------------------------------------------------ membership
OrgActors == {"a1", "m1"}

OrgNext ==
    \/ PostTaskReq(OrgActors, { [category |-> "Bug"] })
    \/ DeleteTaskReq(OrgActors)
    \/ PutSettingsReq(OrgActors, { [name |-> "Beta"], [theme |-> "dark"] })
    \/ PostInviteReq(OrgActors, { [email |-> "m1@x"], [email |-> "n1@x"] })
    \/ PutMemberRoleReq(OrgActors, {"a1", "m1", "a2"}, RoleInputs)
    \/ DeleteMemberReq(OrgActors, {"a1", "m1", "a2"})

OrgSpec == Init /\ [][OrgNext]_vars

\* ------------------------------------------------- accounts and slugs
AuthRegisterBodies ==
    {   [email |-> "n1@x", password |-> "secret", organizationName |-> "Acme"],
        [email |-> "N1@X", password |-> "secret", organizationName |-> "Acme"],
        [email |-> "a1@x", password |-> "secret", organizationName |-> "Beta"],
        [email |-> "n2@x", password |-> "secret", organizationName |-> "!!"] }

AuthLoginBodies ==
    {   [email |-> "a1@x", password |-> "secret"],
        [email |-> "a1@x", password |-> "wrong"],
        [email |-> "n2@x", password |-> "secret"] }

AuthJoinBodies ==
    {   [email |-> "p0@x", password |-> "secret", inviteToken |-> "p0"],
        [email |-> "n1@x", password |-> "secret", inviteToken |-> "p0"],
        [email |-> "n1@x", password |-> "secret", inviteToken |-> "zz"] }

AuthNext ==
    \/ RegisterStart(AuthRegisterBodies)
    \/ RegisterSaveUserStep
    \/ RegisterFindSlugStep
    \/ RegisterSaveOrgStep
    \/ RegisterLinkStep
    \/ LoginReq(AuthLoginBodies)
    \/ JoinStart(AuthJoinBodies)
    \/ JoinSaveStep
    \/ InviteStart({"a1"}, { [email |-> "n1@x"] })
    \/ InviteSaveStep
    \/ RenameStart({"a2"}, { [name |-> "Acme"] })
    \/ RenameSaveStep
    \/ AdvanceClock

AuthSpec == Init /\ [][AuthNext]_vars
\* ------------------------------------------- updates racing on a task
RaceUpdateBodies == { [status |-> st] : st \in UpdateStatusValues }

TaskRaceNext ==
    \/ PostTaskReq({"a1"}, { [category |-> "Bug", dueDate |-> 1] })
    \/ PutTaskLoad({"a1"}, RaceUpdateBodies)
    \/ PutTaskSaveStep
    \/ AdvanceClock
    \/ StartJob
    \/ SweeperTick

TaskRaceSpec == Init /\ [][TaskRaceNext]_vars

\* ------------------------------------------- Admins acting on each other
MemberRaceActors == {"a1", "m1"}

MemberRaceNext ==
    \/ PutMemberRoleStart(MemberRaceActors, MemberRaceActors, {"Admin", "Manager", "Member"})
    \/ PutMemberRoleSaveStep
    \/ DeleteMemberStart(MemberRaceActors, MemberRaceActors)
    \/ DeleteMemberSaveStep

MemberRaceSpec == Init /\ [][MemberRaceNext]_vars

\* ==================================================================
\* Checked properties.  Each handler formula ranges over every request of
\* the request sets, applied to every reachable store.
\* ==================================================================
\* Users that pass auth and tenantIsolation.
Callers == {a \in DOMAIN users : users[a].isActive /\ users[a].organization # NoRef}

OwnTasks(a) == {t \in DOMAIN tasks : tasks[t].organization = users[a].organization}
ForeignTasks(a) == DOMAIN tasks \ OwnTasks(a)

\* A body the validators of PUT /tasks/:id accept.
AcceptedUpdate(b) == "status" \in DOMAIN b => b.status \in {"Todo", "In Progress", "Completed"}

\* r leaves every task of the set S as it is.
Keeps(r, S) == \A t \in S : t \in DOMAIN r.tasks /\ r.tasks[t] = tasks[t]

C2_CompletedAtIffCompleted ==
    \A t \in DOMAIN tasks :
        (tasks[t].completedAt # NoDate) <=> (tasks[t].status = "Completed")

\* C3: a task's organization is the organization of the user that created it.
C3_OrganizationImmutable ==
    \A t \in DOMAIN tasks :
        tasks[t].organization = users[tasks[t].createdBy].organization

\* C4: a Member's update of a task of the organization, with a body the
\* validators accept, is applied only when the Member is the assignee and
\* the body names no field other than status; then only status and
\* completedAt of that task change.  In every other case the reply is 403
\* and the store is unchanged.
C4_MemberUpdate ==
    \A a \in Callers : users[a].role = "Member" =>
        \A id \in OwnTasks(a), b \in UpdateBodies : AcceptedUpdate(b) =>
            LET r == PutTask(a, id, b)
                allowed == tasks[id].assignedTo = a /\ DOMAIN b \subseteq {"status"}
            IN  /\ r.code = 200 => allowed
                /\ ~allowed => r.code = 403 /\ r.tasks = tasks
                /\ allowed =>
                    /\ r.code = 200
                    /\ Keeps(r, DOMAIN tasks \ {id})
                    /\ DOMAIN r.tasks = DOMAIN tasks
                    /\ \A k \in DOMAIN tasks[id] \ {"status", "completedAt"} :
                        r.tasks[id][k] = tasks[id][k]
                    /\ "status" \in DOMAIN b => r.tasks[id].status = b.status

\* A Member who is the assignee of every task was answered 403: the body
\* named a field other than status, and the status it also carried was not
\* applied.
C4_Witness ==
    /\ resp.op = "update"
    /\ resp.code = 403
    /\ resp.actor \in Callers
    /\ users[resp.actor].role = "Member"
    /\ DOMAIN tasks = TaskIds
    /\ \A t \in DOMAIN tasks :
        /\ tasks[t].organization = users[resp.actor].organization
        /\ tasks[t].assignedTo = resp.actor
        /\ tasks[t].status = "Todo"

\* The tasks an actor may see: those of the organization and, for a Member,
\* those the Member is assigned to or created.
Visible(a) ==
    {t \in OwnTasks(a) :
        users[a].role = "Member" => (tasks[t].assignedTo = a \/ tasks[t].createdBy = a)}

Matching(a, q) ==
    {t \in Visible(a) :
        /\ "status" \in DOMAIN q => tasks[t].status = q.status
        /\ "assignedTo" \in DOMAIN q => tasks[t].assignedTo = q.assignedTo}

AcceptedQuery(q) ==
    /\ "page" \in DOMAIN q => q.page >= 1
    /\ "limit" \in DOMAIN q => q.limit \in 1..100

\* C5: list counts exactly the visible tasks that match the filters and
\* returns a page of them (all of them when no page or limit is given, as
\* they fit the default page); get of a task of the organization answers the
\* task when it is visible and 403 when it is not.
C5_Visibility ==
    \A a \in Callers :
        /\ \A q \in ListQueries : AcceptedQuery(q) =>
            LET r == GetTasks(a, q) IN
            /\ r.code = 200
            /\ r.total = Cardinality(Matching(a, q))
            /\ Range(r.tasks) \subseteq Matching(a, q)
            /\ DOMAIN q \cap {"page", "limit"} = {} => Range(r.tasks) = Matching(a, q)
        /\ \A id \in OwnTasks(a) :
            LET r == GetTask(a, id) IN
            IF id \in Visible(a)
            THEN r.code = 200 /\ r.task = tasks[id]
            ELSE r.code = 403

\* A Member was refused a task of the organization while being the creator
\* of another task they are not assigned to.
C5_Witness ==
    /\ resp.op = "get"
    /\ resp.code = 403
    /\ resp.actor \in Callers
    /\ users[resp.actor].role = "Member"
    /\ \E t \in OwnTasks(resp.actor) :
        tasks[t].createdBy = resp.actor /\ tasks[t].assignedTo # resp.actor
    /\ OwnTasks(resp.actor) \ Visible(resp.actor) # {}
\* C6: role gates.  Task create and delete and invite succeed only for
\* Admin or Manager; updateSettings, changeRole and removeMember succeed only
\* for Admin.  A request by any other role is answered 403 whatever its body
\* and target, and changes nothing.
C6_RoleGates ==
    \A a \in Callers :
        LET role == users[a].role
            staff == role \in {"Admin", "Manager"}
            admin == role = "Admin"
        IN
        /\ \A b \in CreateBodies :
            LET r == PostTask(a, b) IN
            /\ r.code = 201 => staff
            /\ ~staff => r.code = 403 /\ r.tasks = tasks
        /\ \A id \in TaskIds :
            LET r == DeleteTask(a, id) IN
            /\ r.code = 200 => staff
            /\ ~staff => r.code = 403 /\ r.tasks = tasks
        /\ \A b \in InviteBodies :
            LET r == PostInvite(a, b) IN
            /\ r.code = 200 => staff
            /\ ~staff => r.code = 403 /\ r.users = users
        /\ \A b \in SettingsBodies :
            LET r == PutSettings(a, b) IN
            /\ r.code = 200 => admin
            /\ ~admin => r.code = 403 /\ r.orgs = orgs
        /\ \A target \in UserIds \cup {"ghost"} :
            /\ \A ro \in RoleInputs :
                LET r == PutMemberRole(a, target, ro) IN
                /\ r.code = 200 => admin
                /\ ~admin => r.code = 403 /\ r.users = users
            /\ LET r == DeleteMember(a, target) IN
                /\ r.code = 200 => admin
                /\ ~admin => r.code = 403 /\ r.users = users

\* A Manager asked for a role change and was answered 403, in a store where
\* an invite has gone through.
C6_Witness ==
    /\ resp.op = "role"
    /\ resp.code = 403
    /\ resp.actor \in Callers
    /\ users[resp.actor].role = "Manager"
    /\ Invited # {}

\* C7: no create or update request moves a task into Expired, and a created
\* task has status Todo whatever the body carries.
C7_OnlySweeperExpires ==
    \A a \in DOMAIN users :
        /\ \A id \in TaskIds, b \in UpdateBodies :
            LET r == PutTask(a, id, b) IN
            \A t \in DOMAIN r.tasks :
                r.tasks[t].status = "Expired" =>
                    t \in DOMAIN tasks /\ tasks[t].status = "Expired"
        /\ \A b \in CreateBodies :
            LET r == PostTask(a, b) IN
            /\ r.code = 201 =>
                /\ nextTaskId \notin DOMAIN tasks
                /\ DOMAIN r.tasks = DOMAIN tasks \cup {nextTaskId}
                /\ r.tasks[nextTaskId].status = "Todo"
            /\ Keeps(r, DOMAIN tasks)

\* An update asking for status Expired was refused while the sweeper has
\* expired one task and another task is not Expired.
C7_Witness ==
    /\ resp.op = "update"
    /\ resp.code = 400
    /\ \E t \in DOMAIN tasks : tasks[t].status = "Expired"
    /\ \E t \in DOMAIN tasks : tasks[t].status # "Expired"

\* C8: a sweeper tick at time t sets status to Expired on exactly the tasks
\* with a dueDate before t and a status other than Completed and Expired;
\* it changes no other task and no other field, and creates or deletes none.
C8_SweeperTick ==
    \A t \in now..MaxTime :
        LET s == UpdateMany(tasks, t) IN
        /\ DOMAIN s = DOMAIN tasks
        /\ \A id \in DOMAIN tasks :
            LET overdue ==
                    /\ tasks[id].dueDate # NoDate
                    /\ tasks[id].dueDate < t
                    /\ tasks[id].status \notin {"Completed", "Expired"}
            IN  /\ s[id].status = IF overdue THEN "Expired" ELSE tasks[id].status
                /\ \A k \in DOMAIN tasks[id] \ {"status"} : s[id][k] = tasks[id][k]
                /\ DOMAIN s[id] = DOMAIN tasks[id]

\* A tick has expired one of two tasks and left the other, which is
\* Completed or has no dueDate.
C8_Witness ==
    /\ resp.op \in SweepOps
    /\ resp.n = 1
    /\ \E t, u \in DOMAIN tasks :
        /\ tasks[t].status = "Expired"
        /\ tasks[t].completedAt = NoDate
        /\ tasks[u].status # "Expired"

\* C9: after a sweeper tick, a second tick at a time by which no further
\* dueDate has passed modifies zero tasks and leaves the store as it is.
C9_SweeperIdempotent ==
    resp.op \in SweepOps =>
        \A t \in now..MaxTime :
            (~\E id \in DOMAIN tasks :
                tasks[id].dueDate # NoDate /\ tasks[id].dueDate >= now /\ tasks[id].dueDate < t)
            => /\ UpdateMany(tasks, t) = tasks
               /\ ModifiedCount(tasks, t) = 0

\* A tick directly after a tick that expired a task modified nothing.
C9_Witness ==
    /\ resp.op = "resweep"
    /\ resp.n = 0
    /\ \E t \in DOMAIN tasks : tasks[t].status = "Expired"

\* A task that is overdue and neither Completed nor Expired.
Overdue(id) ==
    /\ id \in DOMAIN tasks
    /\ tasks[id].dueDate # NoDate
    /\ tasks[id].dueDate < now
    /\ tasks[id].status \notin {"Completed", "Expired"}

\* C10: while the server runs, no task stays overdue, neither Completed nor
\* Expired, for ever: the sweeper eventually expires it.
C10_OverdueEventuallyExpired ==
    \A id \in TaskIds : Overdue(id) ~> ~Overdue(id)

\* Invites that can still be accepted.
PendingInvites ==
    {p \in DOMAIN users :
        /\ users[p].inviteToken # NoRef
        /\ ~users[p].isActive
        /\ users[p].inviteExpires > now}

\* C11: acceptInvite with the token of a pending, unexpired invite fails
\* with "User already exists" only when a user other than the invite's own
\* placeholder holds the email; with the invited email itself it succeeds
\* and creates one active Member of the invite's organization.
C11_AcceptInviteOwnEmail ==
    \A p \in PendingInvites, b \in JoinBodies :
        (b.inviteToken = users[p].inviteToken /\ IsEmail(b.email)) =>
            LET r == Join(b)
                email == Lowercase(b.email)
                new == DOMAIN r.users \ DOMAIN users
            IN  /\ (r.code = 400 /\ r.msg = "User already exists") =>
                    \E u \in DOMAIN users \ {p} : users[u].email = email
                /\ email = users[p].email =>
                    /\ r.code = 201
                    /\ Cardinality(new) = 1
                    /\ \A u \in new :
                        /\ r.users[u].isActive
                        /\ r.users[u].role = "Member"
                        /\ r.users[u].organization = users[p].organization

\* C12: a register that succeeds adds exactly one user, an active Admin,
\* and exactly one organization, the user's organization being that
\* organization and the organization's creator that user, and changes no
\* other document; a register with an email some user record holds is
\* answered 400 and adds nothing.  The reply 201 of a register that ran
\* among other requests names such a pair too.
C12_Register ==
    /\ \A b \in RegisterBodies :
        LET r == Register(b)
            newU == DOMAIN r.users \ DOMAIN users
            newO == DOMAIN r.orgs \ DOMAIN orgs
        IN  /\ r.code = 201 =>
                /\ Cardinality(newU) = 1
                /\ Cardinality(newO) = 1
                /\ \A u \in newU, o \in newO :
                    /\ r.users[u].role = "Admin"
                    /\ r.users[u].isActive
                    /\ r.users[u].email = Lowercase(b.email)
                    /\ r.users[u].organization = o
                    /\ r.orgs[o].createdBy = u
                /\ \A u \in DOMAIN users : r.users[u] = users[u]
                /\ \A o \in DOMAIN orgs : r.orgs[o] = orgs[o]
            /\ (\E u \in DOMAIN users : users[u].email = Lowercase(b.email)) =>
                /\ r.code = 400
                /\ r.users = users
                /\ r.orgs = orgs
    /\ (resp.op = "register" /\ resp.code = 201) =>
        /\ resp.actor \in DOMAIN users
        /\ users[resp.actor].role = "Admin"
        /\ users[resp.actor].organization \in DOMAIN orgs
        /\ orgs[users[resp.actor].organization].createdBy = resp.actor

\* A register has just been answered 201 while another request is between
\* two awaits.
C12_Witness ==
    /\ resp.op = "register"
    /\ resp.code = 201
    /\ users[resp.actor].organization \in DOMAIN orgs \ OrgIds
    /\ \E i \in Slots : inflight[i].pc # "idle"

\* C13: no two user records hold the same email, compared without case.
C13_EmailUnique ==
    \A u, v \in DOMAIN users :
        u # v => Lowercase(users[u].email) # Lowercase(users[v].email)

\* A join that had passed its look-up of the email was refused at the save,
\* a register with the same email having saved its user in between.
C13_Witness ==
    /\ resp.op = "join"
    /\ resp.code = 500
    /\ \E u \in DOMAIN users \ FounderIds : users[u].email = "n1@x"

\* The slug a name gets in a store: the base, or the base with the first
\* suffix 1, 2, ... that no organization other than id holds.
ExpectedSlug(store, id, name) ==
    LET base == BaseSlug(name)
        held(s) == \E o \in DOMAIN store \ {id} : store[o].slug = s
        n == CHOOSE k \in 1..(Cardinality(DOMAIN store) + 1) :
                /\ ~held(Append(base, ToString(k)))
                /\ \A j \in 1..(k - 1) : held(Append(base, ToString(j)))
    IN  IF held(base) THEN Append(base, ToString(n)) ELSE base

\* C14: no two organizations have the same slug; an organization created
\* by a register that runs alone gets the base slug of its name, or, when
\* that is held, the base with the first unused suffix -1, -2, ...; a rename
\* that runs alone gives the organization the slug its new name gets in
\* the same way among all other organizations.
C14_SlugUnique ==
    /\ \A o, p \in DOMAIN orgs : o # p => orgs[o].slug # orgs[p].slug
    /\ \A b \in RegisterBodies :
        LET r == Register(b) IN
        r.code = 201 =>
            \A o \in DOMAIN r.orgs \ DOMAIN orgs :
                r.orgs[o].slug = ExpectedSlug(orgs, o, b.organizationName)
    /\ \A a \in Callers, b \in SettingsBodies :
        LET r == PutSettings(a, b)
            o == users[a].organization
        IN  (r.code = 200 /\ "name" \in DOMAIN b /\ b.name # orgs[o].name) =>
                r.orgs[o].slug = ExpectedSlug(orgs, o, b.name)

\* A registered organization named as an existing one carries the suffixed
\* slug, and the save of a rename that had looked up the same slug was
\* refused by the index on slug.
C14_Witness ==
    /\ resp.code = 500
    /\ resp.op = "settings"
    /\ \E o \in DOMAIN orgs \ OrgIds :
        orgs[o].name = "Acme" /\ orgs[o].slug = <<"acme", "1">>
    /\ orgs["o2"].name = "Beta"

\* C15: a login whose email matches no user, or an inactive user, or whose
\* password is wrong, is answered 400 "Invalid credentials", with no token
\* and no change of any user; no login changes lastLogin unless it succeeds.
C15_LoginFailures ==
    \A b \in LoginBodies :
        LET r == Login(b)
            email == Lowercase(b.email)
            failing ==
                /\ IsEmail(b.email)
                /\ "password" \in DOMAIN b
                /\ \/ ~\E u \in DOMAIN users : users[u].email = email
                   \/ \E u \in DOMAIN users : users[u].email = email /\ ~users[u].isActive
                   \/ \E u \in DOMAIN users :
                        users[u].email = email /\ users[u].password # b.password
        IN  /\ failing =>
                /\ r.code = 400
                /\ r.msg = "Invalid credentials"
                /\ ~r.token
                /\ r.users = users
            /\ r.users # users => r.code = 200 /\ r.token

\* The list queries of the pagination formula.
PageQueries ==
    {   [page |-> p, limit |-> l] : p \in 0..3, l \in {0, 1, 2, 3, 100, 101} }
    \cup { [page |-> p] : p \in 0..2 }
    \cup { [limit |-> l] : l \in {0, 1, 101} }
    \cup { [status |-> "Todo", page |-> p, limit |-> 1] : p \in 1..2 }
    \cup { <<>> }

\* The query q with its page set to p.
AtPage(q, p) == [k \in DOMAIN q \cup {"page"} |-> IF k = "page" THEN p ELSE q[k]]

C17_StatsCounters ==
    \A a \in Callers :
        LET s == GetStats(a)
            V == Visible(a)
            with(st) == Cardinality({t \in V : tasks[t].status = st})
        IN  /\ s.code = 200
            /\ s.total = Cardinality(V)
            /\ s.todo = with("Todo")
            /\ s.inProgress = with("In Progress")
            /\ s.completed = with("Completed")
            /\ s.expired = with("Expired")
            /\ s.total = s.todo + s.inProgress + s.completed + s.expired
            /\ V = {} =>
                /\ s.total = 0
                /\ s.todo = 0
                /\ s.inProgress = 0
                /\ s.completed = 0
                /\ s.expired = 0
                /\ s.overdue = 0

\* A Member asked for stats while one task of the organization is in the
\* Member's scope, Completed, and another is outside the scope.
C17_Witness ==
    /\ resp.op = "stats"
    /\ resp.code = 200
    /\ resp.actor \in Callers
    /\ users[resp.actor].role = "Member"
    /\ \E t \in Visible(resp.actor) : tasks[t].status = "Completed"
    /\ OwnTasks(resp.actor) \ Visible(resp.actor) # {}

\* C18: the overdue counter of stats is the number of tasks in the actor's
\* scope that are neither Completed nor Expired and have a dueDate, in the
\* past; a task without dueDate is not counted.
C18_StatsOverdue ==
    \A a \in Callers :
        GetStats(a).overdue =
            Cardinality({t \in Visible(a) :
                /\ tasks[t].status \notin {"Completed", "Expired"}
                /\ tasks[t].dueDate # NoDate
                /\ tasks[t].dueDate < now})

\* C19: a create or update whose assignedTo is no active user of the
\* actor's organization is answered 400 and writes nothing; the assignee of
\* every stored task is a user of the task's organization.
C19_AssigneeInOrganization ==
    /\ \A a \in Callers, b \in CreateBodies :
        ("assignedTo" \in DOMAIN b /\ users[a].role \in {"Admin", "Manager"}
            /\ b.category \in Categories
            /\ ~(b.assignedTo \in DOMAIN users
                 /\ users[b.assignedTo].isActive
                 /\ users[b.assignedTo].organization = users[a].organization)) =>
            LET r == PostTask(a, b) IN r.code = 400 /\ r.tasks = tasks
    /\ \A a \in Callers, id \in TaskIds, b \in UpdateBodies :
        (id \in OwnTasks(a) /\ "assignedTo" \in DOMAIN b /\ users[a].role \in {"Admin", "Manager"}
            /\ AcceptedUpdate(b)
            /\ ~(b.assignedTo \in DOMAIN users
                 /\ users[b.assignedTo].isActive
                 /\ users[b.assignedTo].organization = users[a].organization)) =>
            LET r == PutTask(a, id, b) IN r.code = 400 /\ r.tasks = tasks
    /\ \A t \in DOMAIN tasks :
        tasks[t].assignedTo # NoRef =>
            /\ tasks[t].assignedTo \in DOMAIN users
            /\ users[tasks[t].assignedTo].organization = tasks[t].organization

C21_RemoveMemberSoftDelete ==
    [][ /\ \A a \in Callers :
            /\ GetMembers(a).code = 200
            /\ \A u \in GetMembers(a).members : users[u].isActive
        /\ (resp'.op = "remove" /\ resp'.code = 200) =>
            /\ tasks' = tasks
            /\ \E target \in DOMAIN users \ {resp'.actor} :
                /\ users' = [users EXCEPT ![target].isActive = FALSE]
                /\ target \notin MembersFind(users', users[resp'.actor].organization)
      ]_vars

\* A member who created a task has been removed, and the task is stored.
C21_Witness ==
    /\ resp.op = "remove"
    /\ resp.code = 200
    /\ \E t \in DOMAIN tasks :
        /\ tasks[t].createdBy # resp.actor
        /\ ~users[tasks[t].createdBy].isActive
        /\ tasks[t].organization = users[resp.actor].organization

\* C22: a request other than register that is answered with an error (a
\* status of 400 or more) leaves users, organizations and tasks as they
\* were; so does the login of a user record that has no organization.
C22_NoPartialCommit ==
    /\ \A b \in LoginBodies :
        Login(b).code >= 400 => Login(b).users = users
    /\ \A b \in JoinBodies :
        Join(b).code >= 400 => Join(b).users = users
    /\ \A a \in DOMAIN users :
        /\ \A b \in InviteBodies :
            PostInvite(a, b).code >= 400 => PostInvite(a, b).users = users
        /\ \A b \in SettingsBodies :
            PutSettings(a, b).code >= 400 => PutSettings(a, b).orgs = orgs
        /\ \A target \in UserIds :
            /\ DeleteMember(a, target).code >= 400 => DeleteMember(a, target).users = users
            /\ \A ro \in RoleInputs :
                PutMemberRole(a, target, ro).code >= 400 =>
                    PutMemberRole(a, target, ro).users = users
        /\ \A b \in CreateBodies :
            PostTask(a, b).code >= 400 => PostTask(a, b).tasks = tasks
        /\ \A id \in TaskIds :
            /\ DeleteTask(a, id).code >= 400 => DeleteTask(a, id).tasks = tasks
            /\ \A b \in UpdateBodies :
                PutTask(a, id, b).code >= 400 => PutTask(a, id, b).tasks = tasks

\* C26: once an acceptInvite with a token has succeeded, every acceptInvite
\* with that token, whatever its email, is answered 400 "Invalid or expired
\* invite token" and creates no user.
C26_InviteSingleUse ==
    (resp.op = "join" /\ resp.code = 201) =>
        \A b \in JoinBodies :
            b.inviteToken = resp.actor =>
                /\ Join(b).code = 400
                /\ Join(b).msg = "Invalid or expired invite token"
                /\ Join(b).users = users

\* C23: when no update of a task is between its load and its save, every
\* stored task has completedAt set if and only if its status is Completed,
\* whatever the order in which earlier updates loaded and saved.
C23_ConcurrentStatusUpdates ==
    (\A i \in Slots : inflight[i].op # "update") =>
        \A t \in DOMAIN tasks :
            (tasks[t].status = "Completed") <=> (tasks[t].completedAt # NoDate)

\* C24: an update that sets status and has loaded an overdue task, not yet
\* Completed or Expired, before a sweeper tick and saves after it leaves
\* the status it set; a tick applied after the save of such an update
\* leaves Expired unless the update set Completed; neither write fails.
C24_SweeperLastWriteWins ==
    /\ \A i \in Slots, t \in now..MaxTime :
        LET r == inflight[i] IN
        (/\ r.pc = "saveTask"
         /\ "status" \in DOMAIN r.body
         /\ r.doc.id \in DOMAIN tasks
         /\ tasks[r.doc.id] = r.doc.loaded
         /\ r.doc.loaded.dueDate # NoDate
         /\ r.doc.loaded.dueDate < t
         /\ r.doc.loaded.status \in {"Todo", "In Progress"}) =>
            LET swept == UpdateMany(tasks, t)
                late == PutTaskSave(swept, r.doc.id, r.doc.loaded, r.body, t)
                early == PutTaskSave(tasks, r.doc.id, r.doc.loaded, r.body, now)
            IN  /\ swept[r.doc.id].status = "Expired"
                /\ late.ok
                /\ late.tasks[r.doc.id].status = r.body.status
                /\ early.ok
                /\ UpdateMany(early.tasks, t)[r.doc.id].status =
                        IF r.body.status = "Completed" THEN "Completed" ELSE "Expired"

\* Organizations whose founder has been linked to them.
Founded ==
    {o \in DOMAIN orgs :
        /\ orgs[o].createdBy \in DOMAIN users
        /\ users[orgs[o].createdBy].organization = o}

\* C25: every organization whose founding registration completed has at
\* least one active user with role Admin.
C25_AdminRemains ==
    \A o \in Founded :
        \E u \in DOMAIN users :
            /\ users[u].organization = o
            /\ users[u].isActive
            /\ users[u].role = "Admin"
====
